---- MODULE Spec2Model ----
(***************************************************************************)
(* The style-override tokens, the Y axis selector and the plot queries of  *)
(* implot-rs (src/src/lib.rs), together with the part of the ImPlot engine *)
(* those wrappers talk to: the live Context, the plot bracket, the active  *)
(* Y axis and the two override stacks.                                     *)
(*                                                                         *)
(* The engine is not part of lib.rs: its side is written from the          *)
(* interface the specification gives (sections 3, 4 and 6). Spec is the    *)
(* whole layer; SpecStyle and SpecBridge are its two halves, which share   *)
(* the Context and nothing else: no query and no axis selection writes a   *)
(* stack or a token, and no push or pop writes the plot or the axis.       *)
(* SpecFrame runs the two halves together, as one frame does, on fewer     *)
(* tokens and axis arguments.                                              *)
(***************************************************************************)
EXTENDS Integers, Sequences, FiniteSets, TLC

\* Number of pushes (tokens issued) in one run of the model.
MaxTokens == 3

\* Number of pushes in one run of a whole frame (SpecFrame).
MaxFrameTokens == 2

\* ---- AxisSelector ------------------------------------------------------

IMPLOT_AUTO == -1

YAxisChoices == {"First", "Second", "Third"}

AxisOptions == YAxisChoices \cup {"None"}

\* The u32 discriminant of a YAxisChoice variant (ImPlotYAxis_1 .. _3).
YAxisChoice(choice) ==
    CASE choice = "First" -> 0
      [] choice = "Second" -> 1
      [] choice = "Third" -> 2

\* `value as i32` of a u32: the same 32 bits read as two's complement.
AsI32(value) ==
    IF value <= 2147483647
    THEN value
    ELSE ((value - 2147483647) - 2147483647) - 2

\* None taken for the first axis instead of the sentinel.
y_axis_choice_option_to_i32_AutoIsFirst(y_axis_choice) ==
    IF y_axis_choice = "None" THEN 0 ELSE AsI32(YAxisChoice(y_axis_choice))

y_axis_choice_option_to_i32(y_axis_choice) ==
    IF y_axis_choice = "None"
    THEN IMPLOT_AUTO
    ELSE AsI32(YAxisChoice(y_axis_choice))

\* ---- State -------------------------------------------------------------

VARIABLES
    ctxLive,      \* a plotting Context is live
    plot,         \* the plot bracket: "never" run, "open" or "closed"
    activeAxis,   \* the engine's active Y axis (native code)
    colorStack,   \* the engine's colour-override stack
    varStack,     \* the engine's variable-override stack
    tokens,       \* every token issued so far, by push order
    popCalls,     \* native pop calls issued so far, per stack kind
    seen,         \* the native codes each axis argument was marshalled to
    last,         \* the last operation: what was asked and what came back
    hist,         \* the latest run of pushes and the pops that follow them
    halted        \* the process died in the engine

vars ==
    <<ctxLive, plot, activeAxis, colorStack, varStack, tokens, popCalls,
      seen, last, hist, halted>>

\* ---- Inputs ------------------------------------------------------------

\* PlotColorElement variants the model pushes.
ColorElements == {"Line", "Fill"}

\* RGBA in tenths: (1.0, 1.0, 1.0, 0.2).
Colors == {<<10, 10, 10, 2>>}

\* StyleVar variants the model pushes.
StyleVars == {"LineWeight"}

\* Payloads in tenths (f32, ImVec2) or as the marker code (i32).
F32Values == {<<110>>}

I32Values == {<<7>>}

Vec2Values == {<<10, 20>>}

\* The values the engine computes for a plot that exists.
EngineValues == {0, 1}

\* What a field of a record holds when the operation has no such thing.
NoToken == 1 - 1

NoCode == 0 - 99

\* ---- Records of what happened -------------------------------------------

Rec(op, tok, arg, code, axis, ret, out, native) ==
    [op |-> op, tok |-> tok, arg |-> arg, code |-> code, axis |-> axis,
     ret |-> ret, out |-> out, native |-> native,
     popped |-> FALSE, inOrder |-> FALSE,
     justSelected |->
         IF last.op = "set_plot_y_axis" /\ last.out = "ok" THEN last.arg ELSE "-"]

Plain(op, out) == Rec(op, NoToken, "-", NoCode, NoCode, <<>>, out, 0)

\* One push or pop: on which stack, for which token, how it ended and what
\* that stack held before it.
StackOp(op, kind, tok, out, before) ==
    [op |-> op, kind |-> kind, tok |-> tok, out |-> out, before |-> before]

\* The latest run of consecutive operations that is one or two pushes and
\* then the pops that follow them, no more pops than pushes. A push or pop
\* that did not do its work is the last of its run, and any operation that
\* is neither a push nor a pop ends the run.
Remember(record) ==
    LET run == IF hist # <<>> /\ hist[Len(hist)].out # "ok" THEN <<>> ELSE hist
        pushes == Cardinality({i \in 1..Len(run) : run[i].op = "push"})
        pops == Len(run) - pushes
    IN IF record.op = "push"
       THEN IF pops > 0 THEN <<record>>
            ELSE IF pushes = 2 THEN <<run[2], record>>
            ELSE Append(run, record)
       ELSE IF pops < pushes THEN Append(run, record) ELSE <<>>

\* ---- The engine ----------------------------------------------------------

\* A native call whose precondition holds does its work; one whose
\* precondition is violated is undefined: the process dies in the engine, or
\* the call comes back having done nothing to the state the model tracks.
NativeOutcomes(precondition) ==
    IF precondition THEN {"ok"} ELSE {"fault", "undefined"}

ImPlot_PushStyleColorVec4(stack, entry) == Append(stack, entry)

ImPlot_PushStyleVar(stack, entry) == Append(stack, entry)

ImPlot_PopStyleColor(stack, count) == SubSeq(stack, 1, Len(stack) - count)

ImPlot_PopStyleVar(stack, count) == SubSeq(stack, 1, Len(stack) - count)

\* The axis a query is evaluated against: the sentinel means the active one.
ResolveAxis(code) == IF code >= 0 THEN code ELSE activeAxis

Init ==
    /\ ctxLive = FALSE
    /\ plot = "never"
    /\ activeAxis = 0
    /\ colorStack = <<>>
    /\ varStack = <<>>
    /\ tokens = <<>>
    /\ popCalls = [color |-> 0, var |-> 0]
    /\ seen = [a \in AxisOptions |-> {}]
    /\ last = [op |-> "init", tok |-> NoToken, arg |-> "-", code |-> NoCode,
               axis |-> NoCode, ret |-> <<>>, out |-> "ok", native |-> 0,
               popped |-> FALSE, inOrder |-> FALSE, justSelected |-> "-"]
    /\ hist = <<>>
    /\ halted = FALSE

CreateContext ==
    /\ ~halted
    /\ ~ctxLive
    /\ ctxLive' = TRUE
    /\ last' = Plain("Context::create", "ok")
    /\ hist' = <<>>
    /\ UNCHANGED <<plot, activeAxis, colorStack, varStack, tokens, popCalls,
                   seen, halted>>

DestroyContext ==
    /\ ~halted
    /\ ctxLive
    /\ ctxLive' = FALSE
    /\ plot' = "never"
    /\ activeAxis' = 0
    /\ colorStack' = <<>>
    /\ varStack' = <<>>
    /\ last' = Plain("Context::drop", "ok")
    /\ hist' = <<>>
    /\ UNCHANGED <<tokens, popCalls, seen, halted>>

BeginPlot ==
    /\ ~halted
    /\ ctxLive
    /\ plot # "open"
    /\ plot' = "open"
    /\ last' = Plain("Plot::begin", "ok")
    /\ hist' = <<>>
    /\ UNCHANGED <<ctxLive, activeAxis, colorStack, varStack, tokens,
                   popCalls, seen, halted>>

EndPlot ==
    /\ ~halted
    /\ ctxLive
    /\ plot = "open"
    /\ plot' = "closed"
    /\ last' = Plain("Plot::end", "ok")
    /\ hist' = <<>>
    /\ UNCHANGED <<ctxLive, activeAxis, colorStack, varStack, tokens,
                   popCalls, seen, halted>>

\* ---- StyleStack ----------------------------------------------------------

\* A token as its push returns it. Beside the was_popped flag the model keeps
\* the token's type, whether its owner has let go of it unpopped, and whether
\* the push that made it ran in a live Context.
NewToken(kind) ==
    [kind |-> kind, was_popped |-> FALSE, dropped |-> FALSE,
     in_context |-> ctxLive]

push_style_color(element, rgba) ==
    /\ ~halted
    /\ Len(tokens) < MaxTokens
    /\ \E out \in NativeOutcomes(ctxLive) :
        LET id == Len(tokens) + 1
            entry == [element |-> element, shape |-> "vec4", value |-> rgba,
                      by |-> id]
        IN /\ colorStack' = IF out = "ok"
                            THEN ImPlot_PushStyleColorVec4(colorStack, entry)
                            ELSE colorStack
           /\ halted' = (out = "fault")
           /\ tokens' = IF out = "fault"
                        THEN tokens
                        ELSE Append(tokens, NewToken("color"))
           /\ last' = Rec("push_style_color", id, "-", NoCode, NoCode,
                          <<>>, out, 1)
           /\ hist' = Remember(StackOp("push", "color", id, out, colorStack))
    /\ UNCHANGED <<ctxLive, plot, activeAxis, varStack, popCalls, seen>>

\* The three variable pushes differ in the native entry point alone.
PushVar(op, shape, element, value) ==
    /\ ~halted
    /\ Len(tokens) < MaxTokens
    /\ \E out \in NativeOutcomes(ctxLive) :
        LET id == Len(tokens) + 1
            entry == [element |-> element, shape |-> shape, value |-> value,
                      by |-> id]
        IN /\ varStack' = IF out = "ok"
                          THEN ImPlot_PushStyleVar(varStack, entry)
                          ELSE varStack
           /\ halted' = (out = "fault")
           /\ tokens' = IF out = "fault"
                        THEN tokens
                        ELSE Append(tokens, NewToken("var"))
           /\ last' = Rec(op, id, "-", NoCode, NoCode, <<>>, out, 1)
           /\ hist' = Remember(StackOp("push", "var", id, out, varStack))
    /\ UNCHANGED <<ctxLive, plot, activeAxis, colorStack, popCalls, seen>>

push_style_var_f32(element, value) ==
    PushVar("push_style_var_f32", "f32", element, value)

\* An integer variable pushed through the colour entry point.
push_style_var_i32_OnColorStack(element, value) ==
    /\ ~halted
    /\ Len(tokens) < MaxTokens
    /\ \E out \in NativeOutcomes(ctxLive) :
        LET id == Len(tokens) + 1
            entry == [element |-> element, shape |-> "i32", value |-> value,
                      by |-> id]
        IN /\ colorStack' = IF out = "ok"
                            THEN ImPlot_PushStyleColorVec4(colorStack, entry)
                            ELSE colorStack
           /\ halted' = (out = "fault")
           /\ tokens' = IF out = "fault"
                        THEN tokens
                        ELSE Append(tokens, NewToken("var"))
           /\ last' = Rec("push_style_var_i32", id, "-", NoCode, NoCode,
                          <<>>, out, 1)
           /\ hist' = Remember(StackOp("push", "var", id, out, varStack))
    /\ UNCHANGED <<ctxLive, plot, activeAxis, varStack, popCalls, seen>>

push_style_var_i32(element, value) ==
    PushVar("push_style_var_i32", "i32", element, value)

push_style_var_imvec2(element, value) ==
    PushVar("push_style_var_imvec2", "vec2", element, value)

\* What a pop records: the flag it read, and whether every token pushed later
\* on the same stack had been popped by then.
PopRec(op, t, out, native) ==
    [Rec(op, t, "-", NoCode, NoCode, <<>>, out, native) EXCEPT
        !.popped = tokens[t].was_popped,
        !.inOrder = \A u \in (t + 1)..Len(tokens) :
                        tokens[u].kind = tokens[t].kind => tokens[u].was_popped]

\* A pop that takes two entries off.
StyleColorToken_pop_count_Two == 1 + 1

\* The entries one native pop call removes: ImPlot_PopStyleColor(1).
StyleColorToken_pop_count == 1

\* A pop that takes two entries off.
StyleVarToken_pop_count_Two == 1 + 1

\* ImPlot_PopStyleVar(1).
StyleVarToken_pop_count == 1

\* A pop that does not look at the flag.
StyleColorToken_was_popped_Unchecked(token) == FALSE

\* `if self.was_popped` of StyleColorToken::pop.
StyleColorToken_was_popped(token) == token.was_popped

\* A pop that does not look at the flag.
StyleVarToken_was_popped_Unchecked(token) == FALSE

\* `if self.was_popped` of StyleVarToken::pop.
StyleVarToken_was_popped(token) == token.was_popped

StyleColorToken_pop(t) ==
    /\ ~halted
    /\ t \in 1..Len(tokens)
    /\ tokens[t].kind = "color"
    /\ ~tokens[t].dropped
    /\ IF StyleColorToken_was_popped(tokens[t])
       THEN /\ last' = PopRec("StyleColorToken::pop", t, "panic", 0)
            /\ hist' = Remember(StackOp("pop", "color", t, "panic", colorStack))
            /\ UNCHANGED <<colorStack, tokens, popCalls, halted>>
       ELSE \E out \in NativeOutcomes(ctxLive
                          /\ Len(colorStack) >= StyleColorToken_pop_count) :
            /\ tokens' = [tokens EXCEPT ![t].was_popped = TRUE]
            /\ colorStack' =
                   IF out = "ok"
                   THEN ImPlot_PopStyleColor(colorStack, StyleColorToken_pop_count)
                   ELSE colorStack
            /\ popCalls' = [popCalls EXCEPT !.color = @ + 1]
            /\ halted' = (out = "fault")
            /\ last' = PopRec("StyleColorToken::pop", t, out, 1)
            /\ hist' = Remember(StackOp("pop", "color", t, out, colorStack))
    /\ UNCHANGED <<ctxLive, plot, activeAxis, varStack, seen>>

StyleVarToken_pop(t) ==
    /\ ~halted
    /\ t \in 1..Len(tokens)
    /\ tokens[t].kind = "var"
    /\ ~tokens[t].dropped
    /\ IF StyleVarToken_was_popped(tokens[t])
       THEN /\ last' = PopRec("StyleVarToken::pop", t, "panic", 0)
            /\ hist' = Remember(StackOp("pop", "var", t, "panic", varStack))
            /\ UNCHANGED <<varStack, tokens, popCalls, halted>>
       ELSE \E out \in NativeOutcomes(ctxLive
                          /\ Len(varStack) >= StyleVarToken_pop_count) :
            /\ tokens' = [tokens EXCEPT ![t].was_popped = TRUE]
            /\ varStack' =
                   IF out = "ok"
                   THEN ImPlot_PopStyleVar(varStack, StyleVarToken_pop_count)
                   ELSE varStack
            /\ popCalls' = [popCalls EXCEPT !.var = @ + 1]
            /\ halted' = (out = "fault")
            /\ last' = PopRec("StyleVarToken::pop", t, out, 1)
            /\ hist' = Remember(StackOp("pop", "var", t, out, varStack))
    /\ UNCHANGED <<ctxLive, plot, activeAxis, colorStack, seen>>

\* A drop that pops: what a Drop implementation calling the native pop would do.
DropToken_Pops(t) ==
    /\ ~halted
    /\ t \in 1..Len(tokens)
    /\ ~tokens[t].dropped
    /\ ~tokens[t].was_popped
    /\ tokens' = [tokens EXCEPT ![t].dropped = TRUE]
    /\ colorStack' = IF tokens[t].kind = "color" /\ Len(colorStack) > 0
                     THEN ImPlot_PopStyleColor(colorStack, 1)
                     ELSE colorStack
    /\ varStack' = IF tokens[t].kind = "var" /\ Len(varStack) > 0
                   THEN ImPlot_PopStyleVar(varStack, 1)
                   ELSE varStack
    /\ last' = Rec("drop", t, "-", NoCode, NoCode, <<>>, "ok", 1)
    /\ hist' = <<>>
    /\ UNCHANGED <<ctxLive, plot, activeAxis, popCalls, seen, halted>>

\* A token that goes out of scope unpopped: neither token type implements Drop.
DropToken(t) ==
    /\ ~halted
    /\ t \in 1..Len(tokens)
    /\ ~tokens[t].dropped
    /\ ~tokens[t].was_popped
    /\ tokens' = [tokens EXCEPT ![t].dropped = TRUE]
    /\ last' = Rec("drop", t, "-", NoCode, NoCode, <<>>, "ok", 0)
    /\ hist' = <<>>
    /\ UNCHANGED <<ctxLive, plot, activeAxis, colorStack, varStack, popCalls,
                   seen, halted>>

\* ---- AxisSelector: select_active -------------------------------------------

set_plot_y_axis(y_axis_choice) ==
    /\ ~halted
    /\ LET code == AsI32(YAxisChoice(y_axis_choice))
       IN \E out \in NativeOutcomes(ctxLive /\ plot = "open") :
           /\ activeAxis' = IF out = "ok" THEN code ELSE activeAxis
           /\ halted' = (out = "fault")
           /\ last' = Rec("set_plot_y_axis", NoToken, y_axis_choice, code,
                          code, <<>>, out, 1)
    /\ hist' = <<>>
    /\ UNCHANGED <<ctxLive, plot, colorStack, varStack, tokens, popCalls, seen>>

\* ---- CoordinateBridge ------------------------------------------------------

\* Pixel and plot positions handed to the conversions.
Positions == {<<0, 0>>, <<3, 4>>}

\* The zeroed value of each return shape.
Zero(shape) ==
    CASE shape = "bool" -> <<0>>
      [] shape = "point" -> <<0, 0>>
      [] shape = "vec2" -> <<0, 0>>
      [] shape = "limits" -> <<0, 0, 0, 0>>

Filled(shape, v) == [i \in 1..Len(Zero(shape)) |-> v]

\* What a query call leaves in the return buffer. With no plot bracket ever
\* run the engine hands back a zeroed structure or leaves the buffer as it
\* was; with no live Context the call is undefined.
EngineQuery(shape, buffer) ==
    IF ~ctxLive
    THEN {[out |-> "fault", ret |-> <<>>]}
         \cup {[out |-> "undefined", ret |-> Filled(shape, v)] : v \in EngineValues}
    ELSE IF plot = "never"
    THEN {[out |-> "ok", ret |-> Zero(shape)], [out |-> "ok", ret |-> buffer]}
    ELSE {[out |-> "ok", ret |-> Filled(shape, v)] : v \in EngineValues}

\* One query: the axis argument marshalled to `code`, the return buffer
\* initialised to `buffer`, the native call, the buffer handed back.
Marshal(op, shape, y_axis_choice, code, buffer) ==
    /\ ~halted
    /\ \E r \in EngineQuery(shape, buffer) :
        /\ last' = Rec(op, NoToken, y_axis_choice, code,
                       IF code = NoCode THEN NoCode ELSE ResolveAxis(code),
                       r.ret, r.out, 1)
        /\ halted' = (r.out = "fault")
    /\ seen' = IF y_axis_choice \in AxisOptions
               THEN [seen EXCEPT ![y_axis_choice] = @ \cup {code}]
               ELSE seen
    /\ hist' = <<>>
    /\ UNCHANGED <<ctxLive, plot, activeAxis, colorStack, varStack, tokens,
                   popCalls>>

is_plot_hovered == Marshal("is_plot_hovered", "bool", "-", NoCode, <<0>>)

is_plot_queried == Marshal("is_plot_queried", "bool", "-", NoCode, <<0>>)

\* The point handed to the engine not zeroed first.
get_plot_mouse_position_Uninit(y_axis_choice) ==
    Marshal("get_plot_mouse_position", "point", y_axis_choice,
            y_axis_choice_option_to_i32(y_axis_choice), <<1, 1>>)

get_plot_mouse_position(y_axis_choice) ==
    Marshal("get_plot_mouse_position", "point", y_axis_choice,
            y_axis_choice_option_to_i32(y_axis_choice), <<0, 0>>)

pixels_to_plot_vec2(pixel_position, y_axis_choice) ==
    Marshal("pixels_to_plot_vec2", "point", y_axis_choice,
            y_axis_choice_option_to_i32(y_axis_choice), <<0, 0>>)

pixels_to_plot_f32(pixel_position_x, pixel_position_y, y_axis_choice) ==
    Marshal("pixels_to_plot_f32", "point", y_axis_choice,
            y_axis_choice_option_to_i32(y_axis_choice), <<0, 0>>)

plot_to_pixels_vec2(plot_position, y_axis_choice) ==
    Marshal("plot_to_pixels_vec2", "vec2", y_axis_choice,
            y_axis_choice_option_to_i32(y_axis_choice), <<0, 0>>)

plot_to_pixels_f32(plot_position_x, plot_position_y, y_axis_choice) ==
    Marshal("plot_to_pixels_f32", "vec2", y_axis_choice,
            y_axis_choice_option_to_i32(y_axis_choice), <<0, 0>>)

get_plot_limits(y_axis_choice) ==
    Marshal("get_plot_limits", "limits", y_axis_choice,
            y_axis_choice_option_to_i32(y_axis_choice), <<0, 0, 0, 0>>)

get_plot_query(y_axis_choice) ==
    Marshal("get_plot_query", "limits", y_axis_choice,
            y_axis_choice_option_to_i32(y_axis_choice), <<0, 0, 0, 0>>)

is_plot_x_axis_hovered ==
    Marshal("is_plot_x_axis_hovered", "bool", "-", NoCode, <<0>>)

\* A probe that makes the axis it is asked about the active one.
is_plot_y_axis_hovered_Selects(y_axis_choice) ==
    /\ ~halted
    /\ \E r \in EngineQuery("bool", <<0>>) :
        /\ last' = Rec("is_plot_y_axis_hovered", NoToken, y_axis_choice,
                       y_axis_choice_option_to_i32(y_axis_choice),
                       ResolveAxis(y_axis_choice_option_to_i32(y_axis_choice)),
                       r.ret, r.out, 1)
        /\ halted' = (r.out = "fault")
    /\ activeAxis' = ResolveAxis(y_axis_choice_option_to_i32(y_axis_choice))
    /\ seen' = [seen EXCEPT ![y_axis_choice] =
                    @ \cup {y_axis_choice_option_to_i32(y_axis_choice)}]
    /\ hist' = <<>>
    /\ UNCHANGED <<ctxLive, plot, colorStack, varStack, tokens, popCalls>>

is_plot_y_axis_hovered(y_axis_choice) ==
    Marshal("is_plot_y_axis_hovered", "bool", y_axis_choice,
            y_axis_choice_option_to_i32(y_axis_choice), <<0>>)

\* ---- Specification -----------------------------------------------------------

\* The context's lifetime, common to both halves of the layer.
ContextStep ==
    \/ CreateContext
    \/ DestroyContext

\* The style-override stacks and their tokens.
NextStyle ==
    \/ ContextStep
    \/ \E element \in ColorElements, rgba \in Colors :
           push_style_color(element, rgba)
    \/ \E element \in StyleVars, value \in F32Values :
           push_style_var_f32(element, value)
    \/ \E element \in StyleVars, value \in I32Values :
           push_style_var_i32(element, value)
    \/ \E element \in StyleVars, value \in Vec2Values :
           push_style_var_imvec2(element, value)
    \/ \E t \in 1..MaxTokens : StyleColorToken_pop(t)
    \/ \E t \in 1..MaxTokens : StyleVarToken_pop(t)
    \/ \E t \in 1..MaxTokens : DropToken(t)

\* The axis selector and the queries on the current or most recent plot.
NextBridge ==
    \/ ContextStep
    \/ BeginPlot
    \/ EndPlot
    \/ \E y_axis_choice \in YAxisChoices : set_plot_y_axis(y_axis_choice)
    \/ is_plot_hovered
    \/ is_plot_queried
    \/ \E y_axis_choice \in AxisOptions : get_plot_mouse_position(y_axis_choice)
    \/ \E p \in Positions, y_axis_choice \in AxisOptions :
           pixels_to_plot_vec2(p, y_axis_choice)
    \/ \E p \in Positions, y_axis_choice \in AxisOptions :
           pixels_to_plot_f32(p[1], p[2], y_axis_choice)
    \/ \E p \in Positions, y_axis_choice \in AxisOptions :
           plot_to_pixels_vec2(p, y_axis_choice)
    \/ \E p \in Positions, y_axis_choice \in AxisOptions :
           plot_to_pixels_f32(p[1], p[2], y_axis_choice)
    \/ \E y_axis_choice \in AxisOptions : get_plot_limits(y_axis_choice)
    \/ \E y_axis_choice \in AxisOptions : get_plot_query(y_axis_choice)
    \/ is_plot_x_axis_hovered
    \/ \E y_axis_choice \in AxisOptions : is_plot_y_axis_hovered(y_axis_choice)

\* The axis arguments and the position one frame's calls are made with.
FrameAxes == {"None", "Third"}

FramePositions == {<<3, 4>>}

\* One frame as client code runs it: a Context made and kept, the plot
\* bracket opened, an axis selected, overrides pushed, the queries asked, the
\* tokens popped.
NextFrame ==
    \/ CreateContext
    \/ BeginPlot
    \/ \E y_axis_choice \in FrameAxes \ {"None"} : set_plot_y_axis(y_axis_choice)
    \/ /\ Len(tokens) < MaxFrameTokens
       /\ \/ \E rgba \in Colors : push_style_color("Line", rgba)
          \/ \E element \in StyleVars, value \in F32Values :
                 push_style_var_f32(element, value)
          \/ \E element \in StyleVars, value \in I32Values :
                 push_style_var_i32(element, value)
          \/ \E element \in StyleVars, value \in Vec2Values :
                 push_style_var_imvec2(element, value)
    \/ \E t \in 1..MaxFrameTokens : StyleColorToken_pop(t)
    \/ \E t \in 1..MaxFrameTokens : StyleVarToken_pop(t)
    \/ is_plot_hovered
    \/ is_plot_queried
    \/ \E y_axis_choice \in FrameAxes : get_plot_mouse_position(y_axis_choice)
    \/ \E p \in FramePositions, y_axis_choice \in FrameAxes :
           pixels_to_plot_vec2(p, y_axis_choice)
    \/ \E p \in FramePositions, y_axis_choice \in FrameAxes :
           pixels_to_plot_f32(p[1], p[2], y_axis_choice)
    \/ \E p \in FramePositions, y_axis_choice \in FrameAxes :
           plot_to_pixels_vec2(p, y_axis_choice)
    \/ \E p \in FramePositions, y_axis_choice \in FrameAxes :
           plot_to_pixels_f32(p[1], p[2], y_axis_choice)
    \/ \E y_axis_choice \in FrameAxes : get_plot_limits(y_axis_choice)
    \/ \E y_axis_choice \in FrameAxes : get_plot_query(y_axis_choice)
    \/ is_plot_x_axis_hovered
    \/ \E y_axis_choice \in FrameAxes : is_plot_y_axis_hovered(y_axis_choice)

Next == NextStyle \/ NextBridge

\* The whole layer.
Spec == Init /\ [][Next]_vars

\* The style stacks alone: no query and no axis selection touches them.
SpecStyle == Init /\ [][NextStyle]_vars

\* The axis selector and the queries alone, with no override pushed.
SpecBridge == Init /\ [][NextBridge]_vars

\* One frame: the two halves together, on fewer tokens and axis arguments.
SpecFrame == Init /\ [][NextFrame]_vars

\* ---- Properties ----------------------------------------------------------------

PopOps == {"StyleColorToken::pop", "StyleVarToken::pop"}

StackOf(kind) == IF kind = "color" THEN colorStack ELSE varStack

\* The entry token t pushed is on its stack.
OnStack(t) ==
    \E i \in 1..Len(StackOf(tokens[t].kind)) : StackOf(tokens[t].kind)[i].by = t

\* The tokens of a kind that have been popped.
Popped(kind) ==
    {t \in 1..Len(tokens) : tokens[t].kind = kind /\ tokens[t].was_popped}

\* C1: a pop of a token whose was_popped flag is already set panics and issues
\* no native pop, for the colour tokens and for the variable tokens alike: the
\* native pops issued stay one for each popped token.
C1_DoublePopPanics ==
    (last.op \in PopOps /\ last.popped) =>
        /\ last.out = "panic"
        /\ last.native = 0
        /\ popCalls.color = Cardinality(Popped("color"))
        /\ popCalls.var = Cardinality(Popped("var"))

C1_Witness ==
    /\ last.op = "StyleVarToken::pop"
    /\ last.popped
    /\ last.out = "panic"
    /\ \E t \in 1..Len(tokens) : tokens[t].kind = "color" /\ tokens[t].was_popped

\* C2: with a Context live, a push that did its work left its stack one entry
\* deeper, and the pop of the returned token right after it does its work
\* too (no panic, no fault) and leaves the stack at the depth before the push.
C2_PushPopRoundTrip ==
    \A n \in 2..Len(hist) :
        (/\ hist[n - 1].op = "push"
         /\ hist[n - 1].out = "ok"
         /\ hist[n].op = "pop"
         /\ hist[n].tok = hist[n - 1].tok) =>
            /\ Len(hist[n].before) = Len(hist[n - 1].before) + 1
            /\ hist[n].out = "ok"
            /\ n = Len(hist) =>
                   Len(StackOf(hist[n].kind)) = Len(hist[n - 1].before)

C2_Witness ==
    /\ Len(hist) = 2
    /\ hist[1].op = "push"
    /\ hist[1].out = "ok"
    /\ hist[1].before # <<>>
    /\ hist[2].op = "pop"
    /\ hist[2].tok = hist[1].tok
    /\ last.op = "StyleVarToken::pop"
    /\ last.out = "ok"
    /\ varStack = hist[1].before

\* The run is: push (token a), push (token b), pop b, pop a, all on one stack,
\* the pushes and the pop of b having done their work.
ReverseOrderRun ==
    /\ Len(hist) = 4
    /\ \A i \in 1..3 : hist[i].out = "ok" /\ hist[i].kind = hist[1].kind
    /\ hist[1].op = "push"
    /\ hist[2].op = "push"
    /\ hist[3].op = "pop"
    /\ hist[4].op = "pop"
    /\ hist[3].tok = hist[2].tok
    /\ hist[4].tok = hist[1].tok

\* C3: push A, push B, pop B's token, pop A's token: the last pop does its
\* work and leaves the stack holding exactly the entries it held before A was
\* pushed.
C3_ReverseOrderRestores ==
    ReverseOrderRun =>
        /\ hist[4].out = "ok"
        /\ StackOf(hist[1].kind) = hist[1].before

C3_Witness ==
    /\ ReverseOrderRun
    /\ hist[1].kind = "color"
    /\ hist[1].before # <<>>
    /\ hist[4].out = "ok"
    /\ colorStack = hist[1].before

\* The run ends: push (token a), push (token b), pop a, on one stack, the two
\* pushes doing their work.
WrongOrderRun(n) ==
    /\ n >= 3
    /\ hist[n - 2].op = "push"
    /\ hist[n - 1].op = "push"
    /\ hist[n].op = "pop"
    /\ hist[n - 2].out = "ok"
    /\ hist[n - 1].out = "ok"
    /\ hist[n - 1].kind = hist[n - 2].kind
    /\ hist[n].tok = hist[n - 2].tok

\* C4: push A, push B, pop A's token: the pop does its work without a panic,
\* takes B's entry (the topmost) off the stack and leaves A's entry on it,
\* with A's token consumed and B's token still unpopped.
C4_WrongOrderUndetected ==
    LET n == Len(hist)
    IN WrongOrderRun(n) =>
        LET a == hist[n].tok
            b == hist[n - 1].tok
            before == hist[n].before
        IN /\ hist[n].out = "ok"
           /\ last.out = "ok"
           /\ last.native = 1
           /\ before[Len(before)].by = b
           /\ StackOf(hist[n].kind) = SubSeq(before, 1, Len(before) - 1)
           /\ OnStack(a)
           /\ ~OnStack(b)
           /\ tokens[a].was_popped
           /\ ~tokens[b].was_popped

C4_Witness ==
    /\ WrongOrderRun(Len(hist))
    /\ hist[Len(hist)].kind = "var"
    /\ last.out = "ok"
    /\ OnStack(hist[Len(hist)].tok)
    /\ tokens[hist[Len(hist)].tok].was_popped
\* C5: y_axis_choice_option_to_i32 gives each argument one code, whenever it
\* is called: the three axes get three different codes, none negative, and
\* None gets -1 (IMPLOT_AUTO), which none of the three axes gets.
C5_AxisCodes ==
    \A a \in AxisOptions : \A x \in seen[a] :
        /\ seen[a] = {x}
        /\ a = "None" => x = -1 /\ x = IMPLOT_AUTO
        /\ a # "None" => x >= 0
        /\ \A b \in AxisOptions \ {a} : x \notin seen[b]

C5_Witness == \A a \in AxisOptions : seen[a] # {}

\* C6: get_plot_mouse_position(None) called right after set_plot_y_axis(Second)
\* did its work hands the engine the sentinel, and the engine evaluates the
\* query against axis Second, the active axis at that moment.
C6_NoneUsesSelectedAxis ==
    (/\ last.op = "get_plot_mouse_position"
     /\ last.arg = "None"
     /\ last.justSelected = "Second") =>
        /\ last.out = "ok"
        /\ last.code = IMPLOT_AUTO
        /\ activeAxis = YAxisChoice("Second")
        /\ last.axis = YAxisChoice("Second")
        /\ last.axis # YAxisChoice("First")

C6_Witness ==
    /\ last.op = "get_plot_mouse_position"
    /\ last.arg = "None"
    /\ last.justSelected = "Second"
    /\ last.axis = 1

QueryOps ==
    {"is_plot_hovered", "is_plot_queried", "is_plot_x_axis_hovered",
     "is_plot_y_axis_hovered", "get_plot_mouse_position",
     "pixels_to_plot_vec2", "pixels_to_plot_f32", "plot_to_pixels_vec2",
     "plot_to_pixels_f32", "get_plot_limits", "get_plot_query"}

\* The zero value of what each query returns: false, a point or pixel
\* position at the origin, limits that are all zero.
ZeroAnswer(op) ==
    CASE op \in {"is_plot_hovered", "is_plot_queried", "is_plot_x_axis_hovered",
                 "is_plot_y_axis_hovered"} -> <<0>>
      [] op \in {"get_plot_limits", "get_plot_query"} -> <<0, 0, 0, 0>>
      [] OTHER -> <<0, 0>>

\* C7: with a Context live and no plot bracket run in it, every query comes
\* back without a fault and with its zero value, whichever call it is.
C7_StaleQueryStable ==
    (last.op \in QueryOps /\ ctxLive /\ plot = "never") =>
        (last.out = "ok" /\ last.ret = ZeroAnswer(last.op))

C7_Witness ==
    /\ last.op = "get_plot_limits"
    /\ ctxLive
    /\ plot = "never"
    /\ last.ret = <<0, 0, 0, 0>>
    /\ seen["Third"] # {}
\* Token t is unpopped before and after the step.
StaysUnpopped(t) == ~tokens[t].was_popped /\ ~tokens'[t].was_popped

\* The step is a pop, of another token, that takes the entry of t off as the
\* topmost entry of its stack.
PoppedByAnother(t) ==
    LET stack == StackOf(tokens[t].kind)
    IN /\ last'.op \in PopOps
       /\ last'.tok # t
       /\ tokens[last'.tok].kind = tokens[t].kind
       /\ ~tokens[last'.tok].was_popped
       /\ tokens'[last'.tok].was_popped
       /\ last'.out = "ok"
       /\ stack[Len(stack)].by = t

\* The step drops token t.
Drops(t) == ~tokens[t].dropped /\ tokens'[t].dropped

\* C8 as stated: dropping a token raises nothing, issues no native call and
\* leaves both stacks as they were; and the override of a token that stays
\* unpopped is on the engine stack after every step that leaves the Context
\* live.
C8_StaleOverrideStays ==
    [][\A t \in 1..Len(tokens) :
          /\ Drops(t) =>
                /\ last'.out = "ok"
                /\ last'.native = 0
                /\ UNCHANGED <<colorStack, varStack, popCalls, halted>>
          /\ (StaysUnpopped(t) /\ OnStack(t) /\ ctxLive') => OnStack(t)']_vars

\* C8 amended: dropping a token raises nothing, issues no native call and
\* leaves both stacks as they were; and the override of a token that stays
\* unpopped is on the engine stack after every step, except a pop of another
\* token of the same stack that finds it topmost, and the Context's teardown.
C8_StaleOverrideStaysUnlessPopped ==
    [][\A t \in 1..Len(tokens) :
          /\ Drops(t) =>
                /\ last'.out = "ok"
                /\ last'.native = 0
                /\ UNCHANGED <<colorStack, varStack, popCalls, halted>>
          /\ (StaysUnpopped(t) /\ OnStack(t)) =>
                (OnStack(t)' \/ ~ctxLive' \/ PoppedByAnother(t))]_vars

C8_Witness ==
    \E t \in 1..Len(tokens) :
        /\ tokens[t].dropped
        /\ OnStack(t)
        /\ last.op \in PopOps
        /\ last.out = "ok"
        /\ last.tok > t
        /\ tokens[last.tok].kind = tokens[t].kind

\* C9 as stated: a pop made while no Context is live aborts and issues no
\* native pop; here for a token whose push ran in a live Context.
C9_PopWithoutContextAborts ==
    (last.op \in PopOps /\ ~ctxLive /\ tokens[last.tok].in_context) =>
        (last.out = "panic" /\ last.native = 0)

\* C10 as stated: a pop of a token pushed before another token of the same
\* stack that is still unpopped aborts and issues no native pop; here with a
\* Context live, for a token whose push ran in a live Context.
C10_OutOfOrderPopAborts ==
    (/\ last.op \in PopOps
     /\ ~last.inOrder
     /\ ctxLive
     /\ tokens[last.tok].in_context) =>
        (last.out = "panic" /\ last.native = 0)

\* C10 amended: the one violation a pop aborts on is the double pop. A pop
\* panics exactly when the token's was_popped flag was already set, and a pop
\* of any other token, in order or out of order, goes on to the native pop.
C10_OnlyDoublePopAborts ==
    last.op \in PopOps =>
        /\ last.out = "panic" <=> last.popped
        /\ ~last.popped => last.native = 1

C10_Witness ==
    /\ last.op = "StyleColorToken::pop"
    /\ ~last.inOrder
    /\ ~last.popped
    /\ last.out = "ok"
    /\ last.native = 1

ColorOps == {"push_style_color", "StyleColorToken::pop"}

VarOps ==
    {"push_style_var_f32", "push_style_var_i32", "push_style_var_imvec2",
     "StyleVarToken::pop"}

\* The step's operation came back from the engine having done its work, or
\* panicked before reaching it.
CameBack == last'.out \in {"ok", "panic"}

\* C11: a colour push or pop that did its work changes the depth of the colour
\* stack by one and leaves the variable stack and the active Y axis as they
\* were; a variable push (f32, i32, ImVec2) or pop that did its work changes
\* the depth of the variable stack by one and leaves the colour stack and the
\* active Y axis as they were; one that panics changes none of the three.
C11_StacksIndependent ==
    [][/\ (last'.op \in ColorOps /\ CameBack) =>
              /\ UNCHANGED <<varStack, activeAxis>>
              /\ popCalls'.var = popCalls.var
              /\ last'.out = "ok" <=> Len(colorStack') # Len(colorStack)
       /\ (last'.op \in VarOps /\ CameBack) =>
              /\ UNCHANGED <<colorStack, activeAxis>>
              /\ popCalls'.color = popCalls.color
              /\ last'.out = "ok" <=> Len(varStack') # Len(varStack)]_vars

C11_Witness ==
    /\ last.op = "StyleVarToken::pop"
    /\ last.out = "ok"
    /\ colorStack # <<>>
    /\ varStack = <<>>
    /\ activeAxis = YAxisChoice("Third")

\* The tokens of a kind that have been issued and not popped.
Unpopped(kind) ==
    {t \in 1..Len(tokens) : tokens[t].kind = kind /\ ~tokens[t].was_popped}

\* A Context is live and each stack is as deep as there are unpopped tokens
\* of its kind: the frame started with both stacks at depth zero and no
\* token outstanding.
FrameCounts ==
    /\ ctxLive
    /\ Len(colorStack) = Cardinality(Unpopped("color"))
    /\ Len(varStack) = Cardinality(Unpopped("var"))

\* C12: after every step the native pop calls issued on a stack are as many
\* as the popped tokens of its kind, and a pop issues at most one native call,
\* which takes at most one entry off; a frame starts with the counts in step,
\* and every push, pop and drop made within it leaves each stack exactly as
\* deep as there are unpopped tokens of its kind, no pop finding its stack
\* empty.
C12_CountCorrect ==
    [][/\ popCalls'.color = Cardinality(Popped("color")')
       /\ popCalls'.var = Cardinality(Popped("var")')
       /\ last'.op \in PopOps =>
              /\ last'.native \in {0, 1}
              /\ (popCalls'.color + popCalls'.var)
                     - (popCalls.color + popCalls.var) = last'.native
              /\ (Len(colorStack) + Len(varStack))
                     - (Len(colorStack') + Len(varStack')) \in {0, last'.native}
       /\ (last'.op = "Context::create" /\ tokens = <<>>) => FrameCounts'
       /\ (FrameCounts /\ last'.op \in ColorOps \cup VarOps \cup {"drop"}) =>
              /\ FrameCounts'
              /\ CameBack
              /\ last'.op \in PopOps =>
                     (last'.out = "ok" <=> ~last'.popped)]_vars

C12_Witness ==
    /\ FrameCounts
    /\ Len(tokens) = MaxTokens
    /\ popCalls.color = 1
    /\ popCalls.var = 1
    /\ last.op = "StyleVarToken::pop"
    /\ last.out = "panic"
    /\ \E t \in 1..Len(tokens) : tokens[t].dropped /\ OnStack(t)

\* The operations of lib.rs, as against those of the Context and the plot
\* bracket.
WrapperOps ==
    QueryOps \cup ColorOps \cup VarOps \cup {"set_plot_y_axis", "drop"}

\* C13: with a Context live, each of the eleven queries, whatever axis
\* argument it is given, comes back leaving the active Y axis, both override
\* stacks, every token and the native pops issued as they were; and of the
\* operations of this layer the one that changes the active Y axis is
\* set_plot_y_axis.
C13_QueriesReadOnly ==
    [][/\ (last'.op \in QueryOps /\ ctxLive) =>
              /\ last'.out = "ok"
              /\ UNCHANGED <<activeAxis, colorStack, varStack, tokens,
                             popCalls, ctxLive, plot, halted>>
       /\ (last'.op \in WrapperOps /\ activeAxis' # activeAxis) =>
              last'.op = "set_plot_y_axis"]_vars

C13_Witness ==
    /\ last.op = "is_plot_y_axis_hovered"
    /\ last.arg = "None"
    /\ last.out = "ok"
    /\ activeAxis = YAxisChoice("Third")
    /\ colorStack # <<>>
    /\ varStack # <<>>
    /\ seen["Third"] # {}
    /\ \A t \in 1..Len(tokens) : ~tokens[t].was_popped
====
